---- MODULE Spec2Model ----
(***************************************************************************)
(* Model of memeticsSearch/generate_embeddings.py: the streaming pipeline  *)
(* that reads rows of a CSV file, validates the text column, groups the    *)
(* kept rows in batches, has the model encode every batch and writes each  *)
(* row with its vector as one JSON line.                                   *)
(*                                                                         *)
(* A string is kept run-length encoded: a sequence of runs [c, n], n >= 1, *)
(* adjacent runs of different characters.  The character " " is            *)
(* whitespace, any other character is not.  len, strip and slicing are     *)
(* computed on that encoding, so texts of 12000 characters are real        *)
(* values of the model.                                                    *)
(***************************************************************************)
EXTENDS Integers, Sequences, FiniteSets, TLC

\* ---------------------------------------------------------------- bounds
\* Rows of the input file.
MaxRows == 3
\* Largest configured batch size (the shipped value, 256, is one option of
\* the configuration surface; the model runs every size 1..MaxBatchSize).
MaxBatchSize == 2
\* Rows of the input file in the runs configured with another text column
\* than the shipped one.
MaxRowsRenamed == 1
\* Rows of the input file in the runs checked for termination.
MaxRowsFair == 2

\* ------------------------------------------------------ program constants
\* The text column is an option of the configuration surface; the model
\* runs the shipped name and one other.
SHIPPED_TEXT_COLUMN == "full_text"
TextColumns == {SHIPPED_TEXT_COLUMN, "body"}
VECTOR_FIELD == "full_text_vector"
\* The "arbitrary long text threshold" of the validation step.
MAX_TEXT_LEN == 10000

\* ---------------------------------------------------------------- strings
WS == " "

Run(c, n) == [c |-> c, n |-> n]

RECURSIVE StrLen(_)
\* len(s)
StrLen(s) == IF s = <<>> THEN 0 ELSE Head(s).n + StrLen(Tail(s))

RECURSIVE LStrip(_)
LStrip(s) == IF s # <<>> /\ Head(s).c = WS THEN LStrip(Tail(s)) ELSE s

RECURSIVE RStrip(_)
RStrip(s) ==
    IF s # <<>> /\ s[Len(s)].c = WS THEN RStrip(SubSeq(s, 1, Len(s) - 1)) ELSE s

\* s.strip()
Strip(s) == RStrip(LStrip(s))

RECURSIVE Slice(_, _)
\* s[:k]
Slice(s, k) ==
    IF s = <<>> \/ k <= 0 THEN <<>>
    ELSE IF Head(s).n >= k THEN <<Run(Head(s).c, k)>>
    ELSE <<Head(s)>> \o Slice(Tail(s), k - Head(s).n)

\* ----------------------------------------------------------------- values
\* A value of a row: a string, None (DictReader's restval for a short row),
\* or, once enriched, the list of numbers of a vector.
Str(s) == [kind |-> "str", val |-> s]
None == [kind |-> "none", val |-> <<>>]

\* The vector the model computes for a text.  The model is an opaque
\* deterministic function of the text, so the vector is represented by the
\* text it was computed from; the empty vector is the vector with no
\* components.
EncodeOne(s) == [kind |-> "vec", val |-> s]
EmptyVector == [kind |-> "vec", val |-> <<>>]

\* ------------------------------------------------------------------- rows
\* dict.get(key, default)
Get(d, key, default) == IF key \in DOMAIN d THEN d[key] ELSE default

\* d[key] = value
SetItem(d, key, value) ==
    [k \in DOMAIN d \cup {key} |-> IF k = key THEN value ELSE d[k]]

\* The id column of row j: j characters "x".
IdStr(j) == Str(<<Run("x", j)>>)

\* The texts the input rows draw their text column from.
Texts ==
    { <<>>,                                                  \* ""
      <<Run(WS, 2)>>,                                        \* blank
      <<Run("a", 3)>>,                                       \* "aaa"
      <<Run(WS, 1), Run("a", 11999)>>,                       \* 12000 characters
      <<Run(WS, 1), Run("a", 10000)>> }                      \* 10001, trimmed 10000

TextValues == {Str(s) : s \in Texts} \cup {None}

\* The rows csv.DictReader yields for a file whose header holds the text
\* column (a row shorter than the header gets None there) ...
RowWithText(j, v, text_column) ==
    [k \in {"id", text_column} |-> IF k = "id" THEN IdStr(j) ELSE v]
\* ... and for a file whose header lacks the text column.
RowWithoutText(j) == [k \in {"id"} |-> IdStr(j)]

Inputs(text_column, rows) ==
    UNION { { [j \in 1..n |-> RowWithText(j, f[j], text_column)] :
                f \in [1..n -> TextValues] }
            \cup { [j \in 1..n |-> RowWithoutText(j)] } : n \in 0..rows }

VARIABLES
    input,          \* the rows of the CSV file, in file order
    inputExists,    \* whether INPUT_CSV_PATH names a file
    BATCH_SIZE,     \* configured batch size
    TEXT_COLUMN,    \* configured name of the column holding the text
    outputOpened,   \* open(OUTPUT_JSONL_PATH, 'w') was called: the file was
                    \* created or truncated
    report,         \* the counts printed on completion, as <<label, count>>
    pc,             \* position of the run
    total_rows,     \* rows read so far
    processed_rows, \* rows of the batches processed so far
    batch,          \* pending rows
    final,          \* process_batch was called for the final batch
    embeddings,     \* what model.encode returned for the batch in progress
    i,              \* index of the write loop of process_batch (0-based)
    out,            \* lines passed to jsonlfile.write, in order
    disk,           \* units of the stream that reached the file; a line is
                    \* two units, its JSON text and its newline
    calls,          \* history: the texts of every model.encode call
    returned,       \* history: what every returning model.encode returned
    error           \* the exception that ended the run, "none" if none

vars == <<input, inputExists, BATCH_SIZE, TEXT_COLUMN, outputOpened, report, pc, total_rows, processed_rows,
          batch, final, embeddings, i, out, disk, calls, returned, error>>

\* Units of the stream written so far.
StreamLen(lines) == 2 * Len(lines)

\* Closing the file (leaving the with block) flushes the whole stream.
CloseFile(lines) == StreamLen(lines)

\* The complete lines the file holds.
FileLines == SubSeq(out, 1, disk \div 2)

Init ==
    /\ TEXT_COLUMN \in TextColumns
    /\ input \in Inputs(TEXT_COLUMN,
                         IF TEXT_COLUMN = SHIPPED_TEXT_COLUMN
                         THEN MaxRows ELSE MaxRowsRenamed)
    /\ inputExists \in BOOLEAN
    /\ BATCH_SIZE \in 1..MaxBatchSize
    /\ outputOpened = FALSE
    /\ report = {}
    /\ pc = "start"
    /\ total_rows = 0
    /\ processed_rows = 0
    /\ batch = <<>>
    /\ final = FALSE
    /\ embeddings = <<>>
    /\ i = 0
    /\ out = <<>>
    /\ disk = 0
    /\ calls = <<>>
    /\ returned = <<>>
    /\ error = "none"

\* The output opened whether or not the input was.
OpensOutputAnyway(exists) == TRUE

\* The with statement opens the output after the input, so only when
\* open(INPUT_CSV_PATH) did not raise.
OpensOutput(exists) == exists

\* with open(INPUT_CSV_PATH) as csvfile, open(OUTPUT_JSONL_PATH, 'w') ...
OpenFiles ==
    /\ pc = "start"
    /\ outputOpened' = OpensOutput(inputExists)
    /\ report' = report
    /\ IF inputExists
       THEN /\ pc' = "read"
            /\ error' = error
       ELSE /\ pc' = "failed"
            /\ error' = "FileNotFoundError"
    /\ UNCHANGED <<input, inputExists, BATCH_SIZE, TEXT_COLUMN, total_rows, processed_rows,
                   batch, final, embeddings, i, out, disk, calls, returned>>

\* ------------------------------------------------------------ validation
\* row.get(TEXT_COLUMN, '').strip() raises AttributeError when the value is
\* None, which has no strip.
ValidationRaises(row, text_column) ==
    Get(row, text_column, Str(<<>>)).kind # "str"

\* text_content of a row whose text column holds a string (or is absent).
TextContent(row, text_column) == Strip(Get(row, text_column, Str(<<>>)).val)

\* The test without the strip.
KeepUnstripped(row, text_column) == Get(row, text_column, Str(<<>>)).val # <<>>

\* if text_content: ... the row is appended to the batch.
Keep(row, text_column) == TextContent(row, text_column) # <<>>

\* The warning without the assignment.
TruncateWarnOnly(row, text_column) == row

\* text_content stored for every row, not only for the overlong ones.
TruncateStoreStripped(row, text_column) ==
    SetItem(row, text_column,
            Str(Slice(Strip(Get(row, text_column, Str(<<>>)).val), MAX_TEXT_LEN)))

\* The row as it is appended: an overlong text_content replaces the stored
\* text, cut to the threshold; any other row is appended as read.
Truncate(row, text_column) ==
    IF StrLen(TextContent(row, text_column)) > MAX_TEXT_LEN
    THEN SetItem(row, text_column,
                 Str(Slice(TextContent(row, text_column), MAX_TEXT_LEN)))
    ELSE row

\* The test off by one.
BatchOverfull(b, size) == Len(b) > size

\* if len(batch) >= BATCH_SIZE
BatchFull(b, size) == Len(b) >= size

\* for row in reader: one turn of the loop, up to the batch-size test.
ReadRow ==
    /\ pc = "read"
    /\ total_rows < Len(input)
    /\ total_rows' = total_rows + 1
    /\ LET row == input[total_rows + 1] IN
       IF ValidationRaises(row, TEXT_COLUMN)
       THEN \* caught by the outer handler, which re-raises; the with block
            \* closes the file on the way out
            /\ pc' = "failed"
            /\ error' = "AttributeError"
            /\ disk' = CloseFile(out)
            /\ UNCHANGED <<batch, final>>
       ELSE /\ batch' = IF Keep(row, TEXT_COLUMN)
                        THEN Append(batch, Truncate(row, TEXT_COLUMN))
                        ELSE batch
            /\ IF BatchFull(batch', BATCH_SIZE)
               THEN pc' = "encode" /\ final' = FALSE
               ELSE pc' = "read" /\ final' = final
            /\ UNCHANGED <<error, disk>>
    /\ UNCHANGED <<outputOpened, report>>
    /\ UNCHANGED <<input, inputExists, BATCH_SIZE, TEXT_COLUMN, processed_rows, embeddings,
                   i, out, calls, returned>>

\* print("Total rows read: ..."), print("Rows with text processed: ...")
Summary(total, processed) ==
    {<<"Total rows read", total>>, <<"Rows with text processed", processed>>}

\* The reader is exhausted: the final batch, if any, is processed; with no
\* final batch the with block is left and the run completes.
EndOfInput ==
    /\ pc = "read"
    /\ total_rows = Len(input)
    /\ IF batch # <<>>
       THEN /\ pc' = "encode"
            /\ final' = TRUE
            /\ disk' = disk
            /\ report' = report
       ELSE /\ pc' = "done"
            /\ final' = final
            /\ disk' = CloseFile(out)
            /\ report' = Summary(total_rows, processed_rows)
    /\ outputOpened' = outputOpened
    /\ UNCHANGED <<input, inputExists, BATCH_SIZE, TEXT_COLUMN, total_rows, processed_rows,
                   batch, embeddings, i, out, calls, returned, error>>

\* ---------------------------------------------------------- process_batch
\* str(text) of a value that is not a string.
ToText(v) ==
    IF v.kind = "str" THEN v.val
    ELSE <<Run("N", 1), Run("o", 1), Run("n", 1), Run("e", 1)>>

\* texts = [row[text_column] for row in batch], non-strings stringified.
BatchTexts(b, text_column) == [k \in 1..Len(b) |-> ToText(b[k][text_column])]

\* What a well-behaved model returns: one vector per text, in order.
EncodeAll(texts) == [k \in 1..Len(texts) |-> EncodeOne(texts[k])]

\* What model.encode may return.  The model is an external collaborator:
\* besides the well-behaved result it may return one vector fewer, one
\* vector more, or an empty vector in the last place.
EncodeReturns(texts) ==
    { EncodeAll(texts),
      SubSeq(EncodeAll(texts), 1, Len(texts) - 1),
      Append(EncodeAll(texts), EncodeOne(<<Run("z", 1)>>)),
      [EncodeAll(texts) EXCEPT ![Len(texts)] = EmptyVector] }

\* The first part of process_batch: the texts are collected and encoded.
Encode ==
    /\ pc = "encode"
    /\ LET texts == BatchTexts(batch, TEXT_COLUMN) IN
       /\ calls' = Append(calls, texts)
       /\ \/ \E r \in EncodeReturns(texts) :
               /\ embeddings' = r
               /\ returned' = Append(returned, r)
               /\ i' = 0
               /\ pc' = "write"
               /\ error' = error
          \/ \* model.encode raises; process_batch logs and re-raises
             /\ pc' = "batch_error"
             /\ error' = "EncodeError"
             /\ UNCHANGED <<embeddings, returned, i>>
    /\ UNCHANGED <<outputOpened, report>>
    /\ UNCHANGED <<input, inputExists, BATCH_SIZE, TEXT_COLUMN, total_rows, processed_rows,
                   batch, final, out, disk>>

\* The last vector instead of the i-th.
VectorAtLast(e, k) == e[Len(e)]

\* The vector stored under the key of the text.
EnrichOverText(record, vector) == SetItem(record, TEXT_COLUMN, vector)

\* embeddings[i]
VectorAt(e, k) == e[k + 1]

\* record['full_text_vector'] = embedding_list
Enrich(record, vector) == SetItem(record, VECTOR_FIELD, vector)

\* One turn of the write loop of process_batch.  jsonlfile.write hands the
\* line to a buffered stream: during the call any part of what the stream
\* holds may reach the file, and nothing is flushed explicitly.
WriteRecord ==
    /\ pc = "write"
    /\ i < Len(batch)
    /\ IF i >= Len(embeddings)
       THEN \* embeddings[i] raises IndexError; logged and re-raised
            /\ pc' = "batch_error"
            /\ error' = "IndexError"
            /\ UNCHANGED <<batch, i, out, disk>>
       ELSE LET record == Enrich(batch[i + 1], VectorAt(embeddings, i)) IN
            /\ batch' = [batch EXCEPT ![i + 1] = record]
            /\ \/ /\ out' = Append(out, record)
                  /\ disk' \in disk..StreamLen(out')
                  /\ i' = i + 1
                  /\ UNCHANGED <<pc, error>>
               \/ \* jsonlfile.write raises (the device is full)
                  /\ pc' = "batch_error"
                  /\ error' = "OSError"
                  /\ UNCHANGED <<i, out, disk>>
    /\ UNCHANGED <<outputOpened, report>>
    /\ UNCHANGED <<input, inputExists, BATCH_SIZE, TEXT_COLUMN, total_rows, processed_rows,
                   final, embeddings, calls, returned>>

\* The counter advanced by the configured size, not by the batch's.
AdvanceByBatchSize(count, b) == count + BATCH_SIZE

\* processed_rows += len(batch)
Advance(count, b) == count + Len(b)

\* process_batch returned: the counter is advanced; in the loop the batch is
\* reset, after the final batch the with block is left and the run completes.
BatchDone ==
    /\ pc = "write"
    /\ i = Len(batch)
    /\ processed_rows' = Advance(processed_rows, batch)
    /\ IF final
       THEN /\ pc' = "done"
            /\ disk' = CloseFile(out)
            /\ batch' = batch
            /\ report' = Summary(total_rows, processed_rows')
       ELSE /\ pc' = "read"
            /\ disk' = disk
            /\ batch' = <<>>
            /\ report' = report
    /\ outputOpened' = outputOpened
    /\ UNCHANGED <<input, inputExists, BATCH_SIZE, TEXT_COLUMN, total_rows, final,
                   embeddings, i, out, calls, returned, error>>

\* A handler that logs and goes on with the loop.
OnBatchErrorContinue == "read"

\* Where the handlers around process_batch leave the run: each of them logs
\* and re-raises.
OnBatchError == "failed"

\* except Exception around process_batch, then the outer handler: both log
\* and re-raise; the with block closes the file on the way out.
HandleBatchError ==
    /\ pc = "batch_error"
    /\ pc' = OnBatchError
    /\ disk' = CloseFile(out)
    /\ UNCHANGED <<outputOpened, report>>
    /\ UNCHANGED <<input, inputExists, BATCH_SIZE, TEXT_COLUMN, total_rows, processed_rows,
                   batch, final, embeddings, i, out, calls, returned, error>>

\* ------------------------------------------------------------- properties
\* The text of a row is non-empty after trimming: it is a string with a
\* character that is not whitespace.
NonBlank(row) ==
    /\ TEXT_COLUMN \in DOMAIN row
    /\ row[TEXT_COLUMN].kind = "str"
    /\ \E r \in 1..Len(row[TEXT_COLUMN].val) : row[TEXT_COLUMN].val[r].c # WS

\* The text of a row is a string without any character that is not
\* whitespace.
Blank(row) ==
    /\ TEXT_COLUMN \in DOMAIN row
    /\ row[TEXT_COLUMN].kind = "str"
    /\ ~NonBlank(row)

RECURSIVE ValidUpTo(_)
\* The indices of the first n input rows that pass validation, in order.
ValidUpTo(n) ==
    IF n = 0 THEN <<>>
    ELSE IF NonBlank(input[n]) THEN Append(ValidUpTo(n - 1), n)
    ELSE ValidUpTo(n - 1)

ValidRows == ValidUpTo(Len(input))

\* The input row a line comes from, by its id column.
RowIndex(line) == StrLen(line["id"].val)

RECURSIVE PriorCount(_)
\* The number of texts handed to model.encode in the calls before call k.
PriorCount(k) == IF k <= 1 THEN 0 ELSE PriorCount(k - 1) + Len(calls[k - 1])

\* ceil(n / b)
CeilDiv(n, b) == (n + b - 1) \div b

\* C1 (drop rule): in a run that reaches Completed, an input row is in the
\* output file if and only if its text is non-empty after trimming, and then
\* it is there as exactly one line; blank rows are never there.
C1_DropRule ==
    pc = "done" =>
        \A j \in 1..Len(input) :
            LET at == {m \in 1..Len(FileLines) : RowIndex(FileLines[m]) = j} IN
            Cardinality(at) = IF NonBlank(input[j]) THEN 1 ELSE 0

C1_Witness ==
    /\ pc = "done"
    /\ \E j \in 1..Len(input) : Blank(input[j]) /\ input[j][TEXT_COLUMN].val # <<>>
    /\ \E j \in 1..Len(input) : NonBlank(input[j])
    /\ Len(FileLines) = Len(ValidRows)

\* C2 (atomic visibility): when model.encode raises on batch k, the file of
\* the terminated run holds exactly the records of batches 1..k-1, in order:
\* the first (k-1) * BATCH_SIZE rows that pass validation, and no other.
C2_AtomicVisibility ==
    (pc = "failed" /\ error = "EncodeError") =>
        /\ Len(FileLines) = (Len(calls) - 1) * BATCH_SIZE
        /\ Len(FileLines) <= Len(ValidRows)
        /\ \A m \in 1..Len(FileLines) :
              /\ RowIndex(FileLines[m]) = ValidRows[m]
              /\ VECTOR_FIELD \in DOMAIN FileLines[m]

C2_Witness ==
    /\ pc = "failed"
    /\ error = "EncodeError"
    /\ Len(calls) >= 2
    /\ Len(FileLines) = (Len(calls) - 1) * BATCH_SIZE
    /\ Len(ValidRows) > Len(FileLines)

\* C3 (vector-count mismatch), as claimed, for the case the claim names:
\* when model.encode returns fewer vectors than the texts of batch k, the run
\* ends failed and the file holds only the lines of batches 1..k-1, no line
\* of batch k.
C3_MismatchAborts ==
    \A k \in 1..Len(returned) :
        (pc \in {"done", "failed"} /\ Len(returned[k]) < Len(calls[k])) =>
            /\ pc = "failed"
            /\ Len(FileLines) = PriorCount(k)

\* C4 (batch completeness): model.encode never gets an empty batch nor more
\* than BATCH_SIZE texts; a run that completes has called it ceil(N / B)
\* times for N rows passing validation, every call but the last with exactly
\* BATCH_SIZE texts.
C4_BatchCompleteness ==
    /\ \A k \in 1..Len(calls) : Len(calls[k]) \in 1..BATCH_SIZE
    /\ pc = "done" =>
          /\ Len(calls) = CeilDiv(Len(ValidRows), BATCH_SIZE)
          /\ \A k \in 1..(Len(calls) - 1) : Len(calls[k]) = BATCH_SIZE

C4_Witness ==
    /\ pc = "done"
    /\ Len(ValidRows) = 3
    /\ BATCH_SIZE = 2
    /\ Len(calls) = 2
    /\ Len(calls[2]) = 1

\* The input of the scenario: three rows, the text of row 2 blank, the text
\* of row 3 of 12000 characters, batch size 2.
ScenarioInput ==
    /\ Len(input) = 3
    /\ BATCH_SIZE = 2
    /\ NonBlank(input[1])
    /\ StrLen(input[1][TEXT_COLUMN].val) <= MAX_TEXT_LEN
    /\ Blank(input[2])
    /\ NonBlank(input[3])
    /\ StrLen(input[3][TEXT_COLUMN].val) = 12000

\* What the scenario says of the output: two lines, rows 1 and 3 in that
\* order, the stored text of row 3 of exactly 10000 characters.
ScenarioOutput ==
    /\ Len(FileLines) = 2
    /\ RowIndex(FileLines[1]) = 1
    /\ RowIndex(FileLines[2]) = 3
    /\ StrLen(FileLines[2][TEXT_COLUMN].val) = MAX_TEXT_LEN

\* C5 (scenario), as claimed: the run completes with those two lines and
\* model.encode is called twice, for a batch of row 1 and a batch of row 3.
C5_ScenarioTwoCalls ==
    (ScenarioInput /\ pc = "done") =>
        /\ ScenarioOutput
        /\ Len(calls) = 2
        /\ Len(calls[1]) = 1
        /\ Len(calls[2]) = 1

\* C5 (scenario), amended: the run completes with those two lines and
\* model.encode is called once, for the one batch holding rows 1 and 3.
C5_ScenarioOneCall ==
    (ScenarioInput /\ pc = "done") =>
        /\ ScenarioOutput
        /\ Len(calls) = 1
        /\ calls[1] = <<FileLines[1][TEXT_COLUMN].val, FileLines[2][TEXT_COLUMN].val>>
        /\ StrLen(calls[1][2]) = MAX_TEXT_LEN

C5_Witness == ScenarioInput /\ pc = "done" /\ Len(FileLines) = 2

\* C6 (truncation rule): the stored text of a written line has exactly 10000
\* characters when the trimmed text of its row is longer than that, and the
\* length of the row's input text otherwise.
C6_TruncationRule ==
    \A m \in 1..Len(out) :
        LET orig == input[RowIndex(out[m])][TEXT_COLUMN].val
            stored == out[m][TEXT_COLUMN].val
        IN  IF StrLen(Strip(orig)) > MAX_TEXT_LEN
            THEN StrLen(stored) = MAX_TEXT_LEN
            ELSE StrLen(stored) = StrLen(orig)

C6_Witness ==
    /\ \E m \in 1..Len(out) :
          /\ StrLen(Strip(input[RowIndex(out[m])][TEXT_COLUMN].val)) > MAX_TEXT_LEN
          /\ StrLen(out[m][TEXT_COLUMN].val) = MAX_TEXT_LEN
    /\ \E m \in 1..Len(out) :
          LET orig == input[RowIndex(out[m])][TEXT_COLUMN].val IN
          /\ StrLen(Strip(orig)) <= MAX_TEXT_LEN
          /\ StrLen(Strip(orig)) < StrLen(orig)
          /\ out[m][TEXT_COLUMN].val = orig

\* C7 (order preservation): the line written for record idx of batch k
\* carries the idx-th vector model.encode returned for that batch, the idx-th
\* text handed to model.encode is the text stored in that line, and the
\* lines are in source order.
C7_OrderPreservation ==
    /\ \A k \in 1..Len(returned) : \A idx \in 1..Len(calls[k]) :
          LET m == PriorCount(k) + idx IN
          m <= Len(out) =>
              /\ idx <= Len(returned[k])
              /\ out[m][VECTOR_FIELD] = returned[k][idx]
              /\ out[m][TEXT_COLUMN].val = calls[k][idx]
    /\ Len(out) <= PriorCount(Len(returned) + 1)
    /\ \A m \in 1..(Len(out) - 1) : RowIndex(out[m]) < RowIndex(out[m + 1])

C7_Witness ==
    /\ Len(out) >= 3
    /\ Len(calls[1]) = 2
    /\ out[1][TEXT_COLUMN] # out[2][TEXT_COLUMN]
    /\ out[1][VECTOR_FIELD] = EncodeOne(out[1][TEXT_COLUMN].val)
    /\ out[2][VECTOR_FIELD] = EncodeOne(out[2][TEXT_COLUMN].val)

\* process_batch raised.
BatchRaised == error \in {"EncodeError", "IndexError", "OSError"}

\* C8 (fail-stop): once process_batch has raised, no step calls model.encode,
\* writes a line or leaves the error behind, and the only step left ends the
\* run failed, never Completed.
C8_FailStop ==
    [][BatchRaised =>
          /\ calls' = calls
          /\ out' = out
          /\ error' = error
          /\ pc' = "failed"]_vars

C8_Witness ==
    /\ BatchRaised
    /\ pc = "failed"
    /\ total_rows < Len(input)
    /\ Len(calls) = 1

\* C9 (per-batch durability), as claimed: the file never ends in the middle
\* of a line, and it holds every line of the batches processed so far.
C9_PerBatchDurability ==
    /\ disk % 2 = 0
    /\ disk >= StreamLen(SubSeq(out, 1, processed_rows))

\* C10 (validation never aborts), as claimed: no row whose fields are
\* strings or None makes the validation step raise.
C10_ValidationNeverRaises == error # "AttributeError"

\* C11 (empty vector rejection), as claimed: no written line carries an
\* empty vector, and a run in which model.encode returned an empty vector
\* for a text of a batch does not complete.
C11_EmptyVectorRejected ==
    /\ \A m \in 1..Len(out) : out[m][VECTOR_FIELD] # EmptyVector
    /\ pc = "done" =>
          \A k \in 1..Len(returned) : \A idx \in 1..Len(calls[k]) :
              idx <= Len(returned[k]) => returned[k][idx] # EmptyVector

\* C12 (round trip), as claimed: a written line holds every field of its
\* input row with the original value, and one more field, the vector.
C12_RoundTrip ==
    \A m \in 1..Len(out) :
        LET orig == input[RowIndex(out[m])] IN
        /\ DOMAIN out[m] = DOMAIN orig \cup {VECTOR_FIELD}
        /\ \A k \in DOMAIN orig : out[m][k] = orig[k]

\* C12 (round trip), amended: a written line holds every field of its input
\* row and one more, the vector; every field but the text has the original
\* value, and so has the text unless its trimmed length is over the cap, when
\* the line holds the first 10000 characters of the trimmed text.
C12_RoundTripButTruncation ==
    \A m \in 1..Len(out) :
        LET orig == input[RowIndex(out[m])] IN
        /\ DOMAIN out[m] = DOMAIN orig \cup {VECTOR_FIELD}
        /\ out[m][VECTOR_FIELD].kind = "vec"
        /\ \A k \in DOMAIN orig \ {VECTOR_FIELD} :
              out[m][k] =
                  IF k = TEXT_COLUMN /\ StrLen(Strip(orig[k].val)) > MAX_TEXT_LEN
                  THEN Str(Slice(Strip(orig[k].val), MAX_TEXT_LEN))
                  ELSE orig[k]

C12_Witness ==
    \E m \in 1..Len(out) :
        LET orig == input[RowIndex(out[m])] IN
        /\ out[m][TEXT_COLUMN] # orig[TEXT_COLUMN]
        /\ out[m]["id"] = orig["id"]
        /\ \E n \in 1..Len(out) : out[n][TEXT_COLUMN] = input[RowIndex(out[n])][TEXT_COLUMN]

\* C13 (missing input): when the input path names no file the run fails with
\* FileNotFoundError before the output is opened: the output file is neither
\* created nor truncated, nothing is written and model.encode is never
\* called.
C13_MissingInput ==
    ~inputExists =>
        /\ ~outputOpened
        /\ calls = <<>>
        /\ out = <<>>
        /\ disk = 0
        /\ pc \in {"start", "failed"}
        /\ pc = "failed" => error = "FileNotFoundError"

C13_Witness ==
    /\ ~inputExists
    /\ pc = "failed"
    /\ error = "FileNotFoundError"
    /\ ~outputOpened
    /\ Len(input) > 0

\* The rows of the input that validation skips.
SkippedRows == {j \in 1..Len(input) : ~NonBlank(input[j])}

\* processed_rows counts exactly the rows of the batches processed with
\* success: the texts of every model.encode call but, while a batch is in
\* progress or after it failed, the last.
CounterTracksBatches ==
    /\ processed_rows =
          IF pc \in {"write", "batch_error"} \/ error \in {"EncodeError", "IndexError", "OSError"}
          THEN PriorCount(Len(calls))
          ELSE PriorCount(Len(calls) + 1)
    /\ pc \in {"read", "encode", "done"} => processed_rows = Len(out)

\* C14 (counter consistency), as claimed: the counter tracks the processed
\* batches, and a completed run reports the rows read, the rows skipped and
\* the rows processed, total = skipped + processed, processed = lines.
C14_CountersAndThreeCounts ==
    /\ CounterTracksBatches
    /\ pc = "done" =>
          /\ <<"Total rows read", Len(input)>> \in report
          /\ <<"Rows with text processed", Len(FileLines)>> \in report
          /\ \E r \in report :
                /\ r[1] \notin {"Total rows read", "Rows with text processed"}
                /\ r[2] = Cardinality(SkippedRows)
          /\ Len(input) = Cardinality(SkippedRows) + processed_rows

\* C14 (counter consistency), amended: the counter tracks the processed
\* batches, and a completed run reports two counts, the rows read and the
\* rows processed; the rows skipped are their difference, which is not
\* reported, and processed = lines.
C14_CountersAndTwoCounts ==
    /\ CounterTracksBatches
    /\ pc = "done" =>
          /\ report = {<<"Total rows read", Len(input)>>,
                       <<"Rows with text processed", Len(FileLines)>>}
          /\ total_rows = Len(input)
          /\ processed_rows = Len(FileLines)
          /\ total_rows - processed_rows = Cardinality(SkippedRows)

C14_Witness ==
    /\ pc = "done"
    /\ Cardinality(SkippedRows) = 1
    /\ processed_rows = 2
    /\ BATCH_SIZE = 2
    /\ report = {<<"Total rows read", 3>>, <<"Rows with text processed", 2>>}

\* C15 (text cap), as claimed: no text of more than 10000 characters is
\* handed to model.encode or stored in a written line.
C15_TextCap ==
    /\ \A k \in 1..Len(calls) : \A idx \in 1..Len(calls[k]) :
          StrLen(calls[k][idx]) <= MAX_TEXT_LEN
    /\ \A m \in 1..Len(out) : StrLen(out[m][TEXT_COLUMN].val) <= MAX_TEXT_LEN

\* C16 (memory bound), as claimed: the pending batch never holds more than
\* BATCH_SIZE records, and the step that ends a batch with success leaves it
\* empty.
C16_MemoryBound ==
    /\ [](Len(batch) <= BATCH_SIZE)
    /\ [][processed_rows' # processed_rows => batch' = <<>>]_vars

\* C16 (memory bound), amended: the pending batch never holds more than
\* BATCH_SIZE records; the step that ends a batch of the read loop with
\* success leaves it empty, the step that ends the final batch leaves it as
\* it is and completes the run.
C16_MemoryBoundInLoop ==
    /\ [](Len(batch) <= BATCH_SIZE)
    /\ [](pc = "read" => Len(batch) < BATCH_SIZE)
    /\ [][processed_rows' # processed_rows =>
             IF final THEN batch' = batch /\ pc' = "done"
             ELSE batch' = <<>> /\ pc' = "read"]_vars

C16_Witness ==
    /\ pc = "read"
    /\ batch = <<>>
    /\ processed_rows = BATCH_SIZE
    /\ BATCH_SIZE = MaxBatchSize
    /\ total_rows < Len(input)

\* C17 (gap-free prefix): the written lines are always the first rows that
\* pass validation, one line each, in source order; after a failure at
\* record i of batch k the file holds the lines of batches 1..k-1 and of
\* records 0..i-1 of batch k.
C17_GapFreePrefix ==
    /\ Len(out) <= Len(ValidRows)
    /\ \A m \in 1..Len(out) : RowIndex(out[m]) = ValidRows[m]
    /\ disk <= StreamLen(out)
    /\ (pc = "failed" /\ error \in {"IndexError", "OSError"}) =>
          Len(FileLines) = PriorCount(Len(calls)) + i

C17_Witness ==
    /\ pc = "failed"
    /\ error = "IndexError"
    /\ i = 1
    /\ Len(batch) = 2
    /\ Len(FileLines) = 1
    /\ \E j \in 1..Len(input) : ~NonBlank(input[j]) /\ j < RowIndex(FileLines[1])

\* The name the vector is claimed to go under: the text column's name
\* followed by "_vector".
VectorFieldOf(text_column) ==
    CASE text_column = "full_text" -> "full_text_vector"
      [] text_column = "body" -> "body_vector"

\* C18 (vector field name), as claimed: every written line carries its
\* vector under the configured text column's name followed by "_vector".
C18_VectorFieldName ==
    \A m \in 1..Len(out) :
        /\ VectorFieldOf(TEXT_COLUMN) \in DOMAIN out[m]
        /\ out[m][VectorFieldOf(TEXT_COLUMN)].kind = "vec"

\* The run is over.
Terminated == pc \in {"done", "failed"}

\* C19 (termination): every run ends, Completed or failed and never both;
\* it ends Completed only with every row read, no exception raised and every
\* row that passes validation, those of the final batch included, processed
\* and written.
C19_Termination ==
    /\ <>Terminated
    /\ [][Terminated => pc' = pc]_vars
    /\ [](pc = "done" =>
            /\ total_rows = Len(input)
            /\ error = "none"
            /\ processed_rows = Len(ValidRows)
            /\ Len(FileLines) = Len(ValidRows))

C19_Witness ==
    /\ pc = "done"
    /\ final
    /\ Len(batch) = 1
    /\ BATCH_SIZE = 2
    /\ Len(input) = 2
    /\ total_rows = Len(input)
    /\ Len(FileLines) = 1

Next ==
    \/ OpenFiles
    \/ ReadRow
    \/ EndOfInput
    \/ Encode
    \/ WriteRecord
    \/ BatchDone
    \/ HandleBatchError

Spec == Init /\ [][Next]_vars

\* The runs checked for termination start like any run, on an input of at
\* most MaxRowsFair rows.
FairInit == Init /\ Len(input) <= MaxRowsFair

\* The run is one sequential thread: a step that can be taken is taken.
FairSpec == FairInit /\ [][Next]_vars /\ WF_vars(Next)
====
